---------------------------- MODULE Spec2Model ----------------------------
(***************************************************************************)
(* gcp_video_intelligence.py: title extraction, video download, upload to  *)
(* Cloud Storage, video annotation, flattening of the shot annotations     *)
(* into rows, streaming insert into BigQuery.                              *)
(*                                                                         *)
(* Strings the script splits or formats (URLs, paths, timestamps) are      *)
(* sequences of one-character strings; strings it only passes through      *)
(* (title, entity and category descriptions) are TLA+ strings.  The        *)
(* confidence (a float) is an integer number of hundredths: the script     *)
(* never computes with it.  External services are the environment: each    *)
(* call either returns a value drawn from a small set or raises.           *)
(***************************************************************************)
EXTENDS Integers, Sequences, FiniteSets

VARIABLES
    pc,              \* position of the script
    args,            \* parsed command line (line 165)
    title,           \* line 168
    local_filepath,  \* line 171
    gcs_filepath,    \* line 174
    shots,           \* line 98
    shot_idx,        \* number of shots the outer loop of line 109 has consumed
    shot_records,    \* line 108 / 124 / 177
    clock,           \* the wall clock, as of its last read at line 110
    reads,           \* the values datetime.now() returned at line 110, in order
    calls,           \* log of the functions executed, with their arguments
    exc,             \* the uncaught exception that ended the process, or "none"
    errors,          \* line 143: the rows (by index) the warehouse rejected
    table,           \* the rows the warehouse table holds
    ret              \* the value bg_streaming_insert returned to line 180

vars == << pc, args, title, local_filepath, gcs_filepath, shots, shot_idx,
           shot_records, clock, reads, calls, exc, errors, table, ret >>

---------------------------------------------------------------------------
(* Bounds of the model *)

\* longest shot list the annotation service returns
MaxShots == 2
\* largest number of segments in one annotation result, over all its shots
MaxSegs == 2

(* Program constants *)

SecondsPerMinute == 60
AnnotateTimeout == 600

---------------------------------------------------------------------------
(* Strings *)

Max(S) == CHOOSE x \in S : \A y \in S : y <= x

Digits == << "0", "1", "2", "3", "4", "5", "6", "7", "8", "9" >>

RECURSIVE DecNat(_)
\* '{}'.format(n) for n >= 0
DecNat(n) == IF n < 10 THEN << Digits[n + 1] >>
             ELSE DecNat(n \div 10) \o << Digits[(n % 10) + 1] >>

\* '{}'.format(n) of a Python int
Dec(n) == IF n < 0 THEN << "-" >> \o DecNat(-n) ELSE DecNat(n)

RECURSIVE ZeroPad(_, _)
\* strftime's fixed-width fields: n in decimal, zero-padded to width w
ZeroPad(n, w) == IF w = 0 THEN << >>
                 ELSE ZeroPad(n \div 10, w - 1) \o << Digits[(n % 10) + 1] >>

\* s.split(c)[-1]: what follows the last c, all of s when it holds no c
SplitLast(s, c) ==
    LET at == { i \in 1..Len(s) : s[i] = c }
    IN  IF at = {} THEN s ELSE SubSeq(s, Max(at) + 1, Len(s))

---------------------------------------------------------------------------
(* Inputs *)

Urls == { << "y", "?", "v", "=", "a" >>,
          << "y", "?", "v", "=", "a", "&", "l", "=", "b" >> }

Buckets == { << "z" >> }

Titles == { "Dogs - YouTube" }

ArgSets == [ youtube_url : Urls, bucket_name : Buckets,
             bq_dataset_id : { "video_analysis1" },
             bq_table_id : { "video_metadata1" } ]

\* time segments with a confidence: start and end offsets in seconds
Segments == { [ start |-> 0,   end |-> 5,   confidence |-> 90 ],
              [ start |-> 125, end |-> 130, confidence |-> 75 ],
              [ start |-> -5,  end |-> 3,   confidence |-> 50 ] }

\* entity description and category entity descriptions of a shot
Labels == { [ entity |-> "dog", category_entities |-> << "animal", "pet" >> ],
            [ entity |-> "sky", category_entities |-> << >> ] }

SegLists == UNION { [ 1..n -> Segments ] : n \in 0..MaxSegs }

ShotAnnotations ==
    { [ entity |-> l.entity, category_entities |-> l.category_entities,
        segments |-> ss ] : l \in Labels, ss \in SegLists }

\* the shot annotations with at most b segments
ShotsUpTo(b) == { s \in ShotAnnotations : Len(s.segments) <= b }

RECURSIVE ShotListsOf(_, _)
\* the lists of n shot annotations with at most b segments in all
ShotListsOf(n, b) ==
    IF n = 0 THEN { << >> }
    ELSE UNION { { << s >> \o rest :
                     rest \in ShotListsOf(n - 1, b - Len(s.segments)) } :
                 s \in ShotsUpTo(b) }

\* result.annotation_results[0].shot_label_annotations
ShotLists == UNION { ShotListsOf(n, MaxSegs) : n \in 0..MaxShots }

\* seconds the annotation operation takes to complete
Latencies == { 30, 601 }

\* the wall clock when the script starts
ClockStart == [ year |-> 2018, month |-> 11, day |-> 5, hour |-> 9,
                minute |-> 59, second |-> 59, microsecond |-> 999998 ]

\* microseconds that pass between two reads of the clock
ClockSteps == { 0, 1 }

---------------------------------------------------------------------------
(* The wall clock and datetime.strftime *)

\* the clock d microseconds after dt (the carry stops at the hour: the
\* model's runs stay within one day)
Tick(dt, d) ==
    LET us == dt.microsecond + d
        s  == dt.second + (us \div 1000000)
        m  == dt.minute + (s \div 60)
        h  == dt.hour + (m \div 60)
    IN  [ dt EXCEPT !.microsecond = us % 1000000, !.second = s % 60,
                    !.minute = m % 60, !.hour = h ]

\* dt.strftime('%Y%m%d_%H%M%S_%f')
Strftime(dt) ==
    ZeroPad(dt.year, 4) \o ZeroPad(dt.month, 2) \o ZeroPad(dt.day, 2)
      \o << "_" >>
      \o ZeroPad(dt.hour, 2) \o ZeroPad(dt.minute, 2) \o ZeroPad(dt.second, 2)
      \o << "_" >> \o ZeroPad(dt.microsecond, 6)

---------------------------------------------------------------------------
(* process_video_in_gcs: the flattening loop *)

\* int(a / b) for b > 0: true division, then truncation toward zero
IntTrueDiv(a, b) == IF a >= 0 THEN a \div b ELSE -((-a) \div b)

\* line 119
StartMinutes(s) == IntTrueDiv(s, SecondsPerMinute)

\* the remainder forgotten: the seconds of the link are the whole offset
StartSecondsNoMod(s) == s

\* line 120: Python's % takes the sign of the divisor
StartSeconds(s) == s % SecondsPerMinute

\* line 123
VideoUrlAtTime(video_url, s) ==
    video_url \o << "&", "t", "=" >> \o Dec(StartMinutes(s)) \o << "m" >>
              \o Dec(StartSeconds(s)) \o << "s" >>

\* index -1 for index 0: the last category entity's description
CategoryLast(shot) ==
    IF Len(shot.category_entities) >= 1
    THEN shot.category_entities[Len(shot.category_entities)] ELSE ""

\* lines 112-115: the first category entity's description, '' when the
\* index raises
Category(shot) ==
    IF Len(shot.category_entities) >= 1 THEN shot.category_entities[1] ELSE ""

\* the confidence rounded to one decimal before it is stored
RowRounded(datetimeid, ttl, video_url, gcs, entity, category, segment) ==
    [ datetimeid          |-> datetimeid,
      title               |-> ttl,
      video_url_at_time   |-> VideoUrlAtTime(video_url, segment.start),
      gcs_filepath        |-> gcs,
      entity              |-> entity,
      category            |-> category,
      start_time_offset   |-> segment.start,
      end_time_offset     |-> segment.end,
      confidence          |-> ((segment.confidence + 5) \div 10) * 10 ]

\* lines 118-124: the tuple appended for one segment
Row(datetimeid, ttl, video_url, gcs, entity, category, segment) ==
    [ datetimeid          |-> datetimeid,
      title               |-> ttl,
      video_url_at_time   |-> VideoUrlAtTime(video_url, segment.start),
      gcs_filepath        |-> gcs,
      entity              |-> entity,
      category            |-> category,
      start_time_offset   |-> segment.start,
      end_time_offset     |-> segment.end,
      confidence          |-> segment.confidence ]

\* the append dedented out of the inner loop: one row per shot, for its
\* last segment
ShotRowsLastSegment(datetimeid, ttl, video_url, gcs, shot) ==
    IF shot.segments = << >> THEN << >>
    ELSE << Row(datetimeid, ttl, video_url, gcs, shot.entity, Category(shot),
                shot.segments[Len(shot.segments)]) >>

\* the segments walked from the last to the first
ShotRowsReversed(datetimeid, ttl, video_url, gcs, shot) ==
    [ j \in 1..Len(shot.segments) |->
        Row(datetimeid, ttl, video_url, gcs, shot.entity, Category(shot),
            shot.segments[Len(shot.segments) + 1 - j]) ]

\* lines 117-124: the rows the inner loop appends for one shot
ShotRows(datetimeid, ttl, video_url, gcs, shot) ==
    [ j \in 1..Len(shot.segments) |->
        Row(datetimeid, ttl, video_url, gcs, shot.entity, Category(shot),
            shot.segments[j]) ]

---------------------------------------------------------------------------
(* __main__: the order of the calls and what ends the process *)

\* the upload left out: the annotation follows the download
NextStageSkipUpload(stage) ==
    CASE stage = "extract_url_title"   -> "save_youtube_video"
      [] stage = "save_youtube_video"  -> "annotate_video"
      [] stage = "upload_to_gcs"       -> "annotate_video"
      [] stage = "annotate_video"      -> "flatten"
      [] stage = "flatten"             -> "bg_streaming_insert"
      [] stage = "bg_streaming_insert" -> "done"

\* lines 168-180: the statement that follows each one when it returns
NextStage(stage) ==
    CASE stage = "extract_url_title"   -> "save_youtube_video"
      [] stage = "save_youtube_video"  -> "upload_to_gcs"
      [] stage = "upload_to_gcs"       -> "annotate_video"
      [] stage = "annotate_video"      -> "flatten"
      [] stage = "flatten"             -> "bg_streaming_insert"
      [] stage = "bg_streaming_insert" -> "done"

\* a failed title extraction survived: the script goes on to the download
OnErrorContinue(stage) ==
    IF stage = "extract_url_title" THEN "save_youtube_video" ELSE "failed"

\* where the script goes when a call raises: nothing in __main__ catches, and
\* the handler of extract_url_title (lines 43-45) ends the process itself
OnError(stage) == "failed"

\* the exception that leaves extract_url_title when its try block fails:
\* the handler calls sys.exit(), and sys is never imported (lines 27-32)
TitleHandlerException == "NameError"

Returned(stage, arg) == [ stage |-> stage, arg |-> arg, status |-> "returned" ]
Raised(stage, arg)   == [ stage |-> stage, arg |-> arg, status |-> "raised" ]

\* the value of a function that ends without a return statement
None == [ type |-> "NoneType", val |-> 0 ]
PyInt(n) == [ type |-> "int", val |-> n ]

Init ==
    /\ pc = "extract_url_title"
    /\ args \in ArgSets
    /\ title = ""
    /\ local_filepath = << >>
    /\ gcs_filepath = << >>
    /\ shots = << >>
    /\ shot_idx = 0
    /\ shot_records = << >>
    /\ clock = ClockStart
    /\ reads = << >>
    /\ calls = << >>
    /\ exc = "none"
    /\ errors = { }
    /\ table = << >>
    /\ ret = None

\* lines 36-45, called at line 168
ExtractUrlTitle ==
    /\ pc = "extract_url_title"
    /\ \/ \E t \in Titles :
            /\ title' = t
            /\ calls' = Append(calls, Returned("extract_url_title", args.youtube_url))
            /\ pc' = NextStage("extract_url_title")
            /\ exc' = exc
       \/ \E cause \in { "ConnectionError", "AttributeError" } :
            \* page unreachable, or soup.find('title') is None
            /\ title' = title
            /\ calls' = Append(calls, Raised("extract_url_title", args.youtube_url))
            /\ pc' = OnError("extract_url_title")
            /\ exc' = TitleHandlerException
    /\ UNCHANGED << args, local_filepath, gcs_filepath, shots, shot_idx,
                    shot_records, clock, reads, errors, table, ret >>

\* lines 52-62: the path the video is saved at
LocalFilepath(youtube_url) ==
    << "/", "t", "m", "p" >> \o << "/" >>
       \o << "y", "o", "u", "t", "u", "b", "e", "_" >> \o SplitLast(youtube_url, "=")
       \o << ".", "m", "p", "4" >>

\* lines 49-64, called at line 171
SaveYoutubeVideo ==
    /\ pc = "save_youtube_video"
    /\ \/ /\ local_filepath' = LocalFilepath(args.youtube_url)
          /\ calls' = Append(calls, Returned("save_youtube_video", args.youtube_url))
          /\ pc' = NextStage("save_youtube_video")
          /\ exc' = exc
       \/ \E e \in { "VideoUnavailable", "AttributeError" } :
            \* pytube raises, or no progressive mp4 stream: first() is None
            /\ local_filepath' = local_filepath
            /\ calls' = Append(calls, Raised("save_youtube_video", args.youtube_url))
            /\ pc' = OnError("save_youtube_video")
            /\ exc' = e
    /\ UNCHANGED << args, title, gcs_filepath, shots, shot_idx, shot_records,
                    clock, reads, errors, table, ret >>

\* lines 71-72: 'gs://{}/{}'.format(bucket_name, local_filepath.split('/')[-1])
GcsFilepath(bucket_name, path) ==
    << "g", "s", ":", "/", "/" >> \o bucket_name \o << "/" >> \o SplitLast(path, "/")

\* line 174: the arguments of upload_to_gcs
UploadArg == [ bucket_name |-> args.bucket_name, local_filepath |-> local_filepath ]

\* lines 68-81, called at line 174
UploadToGcs ==
    /\ pc = "upload_to_gcs"
    /\ \/ /\ gcs_filepath' = GcsFilepath(UploadArg.bucket_name, UploadArg.local_filepath)
          /\ calls' = Append(calls, Returned("upload_to_gcs", UploadArg))
          /\ pc' = NextStage("upload_to_gcs")
          /\ exc' = exc
       \/ \E e \in { "NotFound", "Forbidden" } :
            /\ gcs_filepath' = gcs_filepath
            /\ calls' = Append(calls, Raised("upload_to_gcs", UploadArg))
            /\ pc' = OnError("upload_to_gcs")
            /\ exc' = e
    /\ UNCHANGED << args, title, local_filepath, shots, shot_idx, shot_records,
                    clock, reads, errors, table, ret >>

\* line 177: the arguments of process_video_in_gcs
ProcessArg == [ gcs_filepath |-> gcs_filepath, video_url |-> args.youtube_url,
                title |-> title ]

\* lines 88-108 of process_video_in_gcs, called at line 177
AnnotateVideo ==
    /\ pc = "annotate_video"
    /\ \E latency \in Latencies :
         \/ /\ latency <= AnnotateTimeout
            /\ \E sh \in ShotLists :
                 /\ shots' = sh
                 /\ calls' = Append(calls, Returned("annotate_video", ProcessArg))
                 /\ pc' = NextStage("annotate_video")
                 /\ exc' = exc
         \/ /\ latency <= AnnotateTimeout
            /\ \E e \in { "GoogleAPICallError", "IndexError" } :
                 \* the operation failed, or annotation_results is empty
                 /\ shots' = shots
                 /\ calls' = Append(calls, Raised("annotate_video", ProcessArg))
                 /\ pc' = OnError("annotate_video")
                 /\ exc' = e
         \/ /\ latency > AnnotateTimeout
            /\ shots' = shots
            /\ calls' = Append(calls, Raised("annotate_video", ProcessArg))
            /\ pc' = OnError("annotate_video")
            /\ exc' = "TimeoutError"
    /\ shot_idx' = 0
    /\ shot_records' = << >>
    /\ UNCHANGED << args, title, local_filepath, gcs_filepath, clock, reads,
                    errors, table, ret >>

\* lines 109-124: one iteration of the loop over the shots
FlattenShot ==
    /\ pc = "flatten"
    /\ shot_idx < Len(shots)
    /\ \E d \in ClockSteps :
         /\ clock' = Tick(clock, d)
         /\ reads' = Append(reads, clock')
         /\ shot_records' = shot_records \o
                ShotRows(Strftime(clock'), ProcessArg.title, ProcessArg.video_url,
                         ProcessArg.gcs_filepath, shots[shot_idx + 1])
    /\ shot_idx' = shot_idx + 1
    /\ UNCHANGED << pc, args, title, local_filepath, gcs_filepath, shots, calls,
                    exc, errors, table, ret >>

\* lines 126-130: the loop is over, process_video_in_gcs returns shot_records
FlattenReturn ==
    /\ pc = "flatten"
    /\ shot_idx = Len(shots)
    /\ calls' = Append(calls, Returned("flatten", shots))
    /\ pc' = NextStage("flatten")
    /\ UNCHANGED << args, title, local_filepath, gcs_filepath, shots, shot_idx,
                    shot_records, clock, reads, exc, errors, table, ret >>

\* line 180: the rows handed to bg_streaming_insert
InsertArg == shot_records

\* the rows of rows whose index is not in rejected, in order
RECURSIVE Accepted(_, _, _)
Accepted(rows, rejected, k) ==
    IF k > Len(rows) THEN << >>
    ELSE (IF k \in rejected THEN << >> ELSE << rows[k] >>)
            \o Accepted(rows, rejected, k + 1)

\* lines 134-145: what bg_streaming_insert hands back to its caller
InsertReturn(errs) == None

\* lines 134-145, called at line 180
BgStreamingInsert ==
    /\ pc = "bg_streaming_insert"
    /\ \/ \E rejected \in SUBSET (1..Len(InsertArg)) :
            /\ errors' = rejected
            /\ table' = table \o Accepted(InsertArg, rejected, 1)
            /\ ret' = InsertReturn(rejected)
            /\ calls' = Append(calls, Returned("bg_streaming_insert", InsertArg))
            /\ pc' = NextStage("bg_streaming_insert")
            /\ exc' = exc
       \/ \E e \in { "NotFound" } :
            \* the dataset or the table does not exist
            /\ UNCHANGED << errors, table, ret >>
            /\ calls' = Append(calls, Raised("bg_streaming_insert", InsertArg))
            /\ pc' = OnError("bg_streaming_insert")
            /\ exc' = e
    /\ UNCHANGED << args, title, local_filepath, gcs_filepath, shots, shot_idx,
                    shot_records, clock, reads >>

Next ==
    \/ ExtractUrlTitle
    \/ SaveYoutubeVideo
    \/ UploadToGcs
    \/ AnnotateVideo
    \/ FlattenShot
    \/ FlattenReturn
    \/ BgStreamingInsert

Spec == Init /\ [][Next]_vars

---------------------------------------------------------------------------
(* Properties *)

StageOrder == << "extract_url_title", "save_youtube_video", "upload_to_gcs",
                 "annotate_video", "flatten", "bg_streaming_insert" >>

\* process_video_in_gcs has returned its rows
FlattenReturned == \E k \in 1..Len(calls) : calls[k].stage = "flatten"

\* the (shot, segment) pairs of the shots the loop has consumed
Pairs == UNION { { << i, j >> : j \in 1..Len(shots[i].segments) } :
                 i \in 1..shot_idx }

\* the position of pair p among the pairs, shots first, then segments
Rank(p) ==
    Cardinality({ q \in Pairs :
                    q[1] < p[1] \/ (q[1] = p[1] /\ q[2] <= p[2]) })

SegmentOf(p) == shots[p[1]].segments[p[2]]

\* what a row says of the (shot, segment) pair it was made from
Source(entity, segment) == [ entity |-> entity, segment |-> segment ]
SourceOfRow(r) ==
    Source(r.entity, [ start |-> r.start_time_offset, end |-> r.end_time_offset,
                       confidence |-> r.confidence ])
SourceOfPair(p) == Source(shots[p[1]].entity, SegmentOf(p))

RECURSIVE SegCount(_)
SegCount(sh) == IF sh = << >> THEN 0
                ELSE Len(sh[1].segments) + SegCount(Tail(sh))

\* C1: the loop returns exactly sum(k_i) rows, one for each (shot, segment)
\* pair (as many rows of each source as there are pairs of that source);
\* after every iteration the rows so far are those of the shots consumed;
\* no shots, or shots without segments, give the empty list, and the loop
\* never ends the process.
C1_OneRowPerSegment ==
    /\ Len(shot_records) = SegCount(SubSeq(shots, 1, shot_idx))
    /\ FlattenReturned => Len(shot_records) = SegCount(shots)
    /\ \A p \in Pairs :
         Cardinality({ k \in 1..Len(shot_records) :
                         SourceOfRow(shot_records[k]) = SourceOfPair(p) })
           = Cardinality({ q \in Pairs : SourceOfPair(q) = SourceOfPair(p) })
    /\ \A k \in 1..Len(shot_records) :
         \E p \in Pairs : SourceOfRow(shot_records[k]) = SourceOfPair(p)
    /\ (FlattenReturned /\ SegCount(shots) = 0) => shot_records = << >>
    /\ \A k \in 1..Len(calls) :
         calls[k].stage = "flatten" => calls[k].status = "returned"

C1_Witness ==
    /\ FlattenReturned
    /\ Len(shots) = 2
    /\ Len(shots[1].segments) = 0
    /\ Len(shots[2].segments) = 2
    /\ Len(shot_records) = 2

\* C2: for a segment that starts at s >= 0 seconds the row's link is the
\* video URL followed by "&t={m}m{r}s" where 60*m + r = s and 0 <= r <= 59.
C2_DeepLinkMinutesSeconds ==
    \A p \in Pairs :
      LET s == SegmentOf(p).start
      IN  s >= 0 =>
            \E r \in 0..59 :
              /\ (s - r) % 60 = 0
              /\ LET m == (s - r) \div 60
                 IN  /\ 60 * m + r = s
                     /\ shot_records[Rank(p)].video_url_at_time =
                          args.youtube_url \o << "&", "t", "=" >> \o Dec(m)
                            \o << "m" >> \o Dec(r) \o << "s" >>

C2_Witness ==
    /\ FlattenReturned
    /\ \E p \in Pairs :
         /\ SegmentOf(p).start = 125
         /\ shot_records[Rank(p)].video_url_at_time =
              << "y", "?", "v", "=", "a", "&", "t", "=", "2", "m", "5", "s" >>

HasNegativeStart ==
    \E i \in 1..Len(shots) : \E j \in 1..Len(shots[i].segments) :
      shots[i].segments[j].start < 0

\* C3: when a segment of the annotation result starts at a negative offset
\* the flattening emits no row, nothing reaches the warehouse, and the
\* transform ends in MalformedAnnotationError.
C3_NegativeOffsetRejected ==
    HasNegativeStart =>
      /\ shot_records = << >>
      /\ table = << >>
      /\ pc # "flatten" => exc = "MalformedAnnotationError"

\* seconds since midnight
SecondOfDay(dt) == (dt.hour * 60 + dt.minute) * 60 + dt.second

\* clock value a is earlier than clock value b, on the same day
Earlier(a, b) ==
    \/ SecondOfDay(a) < SecondOfDay(b)
    \/ SecondOfDay(a) = SecondOfDay(b) /\ a.microsecond < b.microsecond

ClockStrictlyIncreases ==
    \A a, b \in 1..Len(reads) : a < b => Earlier(reads[a], reads[b])

\* C4: under a clock that strictly increases between reads, any two rows of
\* a run carry different record ids, two rows of one shot included.
C4_RecordIdPerSegment ==
    ClockStrictlyIncreases =>
      \A k, l \in 1..Len(shot_records) :
        k # l => shot_records[k].datetimeid # shot_records[l].datetimeid

\* C5: a shot without category entities gives rows whose category is the
\* empty string, a shot with some gives the description of the first, and
\* neither stops the loop: every consumed shot has all its rows.
C5_CategoryFirstOrEmpty ==
    /\ \A p \in Pairs :
         LET cats == shots[p[1]].category_entities
             row  == shot_records[Rank(p)]
         IN  /\ cats = << >> => row.category = ""
             /\ cats # << >> => row.category = Head(cats)
    /\ Len(shot_records) = Cardinality(Pairs)
    /\ \A k \in 1..Len(calls) :
         calls[k].stage = "flatten" => calls[k].status = "returned"

C5_Witness ==
    /\ FlattenReturned
    /\ Len(shots) = 2
    /\ shots[1].category_entities = << >>
    /\ shots[2].category_entities = << "animal", "pet" >>
    /\ Len(shot_records) = 2
    /\ shot_records[1].category = ""
    /\ shot_records[2].category = "animal"

IsPrefix(s, u) == Len(s) <= Len(u) /\ SubSeq(u, 1, Len(s)) = s

\* C6: the functions run in the order title, download, upload, annotation,
\* flattening, insert, each at most once and only after the one before it has
\* returned; upload gets the downloaded file's path, annotation the gs://
\* path of the upload, insert the flattened rows.
C6_StagesInOrder ==
    /\ Len(calls) <= Len(StageOrder)
    /\ \A k \in 1..Len(calls) : calls[k].stage = StageOrder[k]
    /\ \A k \in 2..Len(calls) : calls[k - 1].status = "returned"
    /\ pc \notin { "done", "failed" } => pc = StageOrder[Len(calls) + 1]
    /\ pc = "done" => Len(calls) = Len(StageOrder)
    /\ \A k \in 1..Len(calls) :
         /\ calls[k].stage = "save_youtube_video" => calls[k].arg = args.youtube_url
         /\ calls[k].stage = "upload_to_gcs" =>
              /\ calls[k].arg.local_filepath = local_filepath
              /\ IsPrefix(<< "/", "t", "m", "p", "/" >>, calls[k].arg.local_filepath)
         /\ calls[k].stage = "annotate_video" =>
              /\ calls[k].arg.gcs_filepath = gcs_filepath
              /\ IsPrefix(<< "g", "s", ":", "/", "/" >>, calls[k].arg.gcs_filepath)
         /\ calls[k].stage = "flatten" => calls[k].arg = shots
         /\ calls[k].stage = "bg_streaming_insert" => calls[k].arg = shot_records

C6_Witness ==
    /\ pc = "done"
    /\ Len(calls) = 6
    /\ Len(table) = 2
    /\ calls[6].arg = shot_records

\* C7: the first call that raises ends the process: nothing is logged after
\* a call that raised, the process is then in its final state with no step
\* left, the warehouse table holds no row unless the insert itself was
\* reached and returned, and a failed title extraction leaves no title.
C7_FirstErrorTerminates ==
    /\ \A k \in 1..Len(calls) : calls[k].status = "raised" => k = Len(calls)
    /\ (exc # "none") <=> (pc = "failed")
    /\ pc = "failed" =>
         /\ calls # << >>
         /\ calls[Len(calls)].status = "raised"
         /\ ~ ENABLED Next
         /\ table = << >>
    /\ (\E k \in 1..Len(calls) :
          calls[k].stage = "extract_url_title" /\ calls[k].status = "raised")
         => (title = "" /\ Len(calls) = 1 /\ shot_records = << >>)
    /\ table # << >> => (pc = "done" /\ \A k \in 1..Len(calls) : calls[k].status = "returned")

C7_Witness ==
    /\ pc = "failed"
    /\ exc = "TimeoutError"
    /\ Len(calls) = 4
    /\ calls[4].stage = "annotate_video"
    /\ table = << >>

\* C8: bg_streaming_insert returns the number of rows the warehouse
\* rejected: non-zero when some were, 0 exactly when none was.
C8_InsertReturnsRejectedCount ==
    pc = "done" => ret = PyInt(Cardinality(errors))

\* C9: the rows are in the order of the service's result: the rows of an
\* earlier shot come before those of a later one, the rows of a shot are in
\* the order of its segments, and the insert is handed this very sequence.
C9_ServiceOrderKept ==
    /\ Len(shot_records) = Cardinality(Pairs)
    /\ \A p \in Pairs : SourceOfRow(shot_records[Rank(p)]) = SourceOfPair(p)
    /\ \A k \in 1..Len(calls) :
         calls[k].stage = "bg_streaming_insert" => calls[k].arg = shot_records

C9_Witness ==
    /\ pc = "done"
    /\ Len(shots) = 1
    /\ Len(shots[1].segments) = 2
    /\ shots[1].segments[1].start = 125
    /\ shots[1].segments[2].start = 0
    /\ Len(shot_records) = 2
    /\ shot_records[1].start_time_offset = 125
    /\ shot_records[2].start_time_offset = 0

\* a row without its record id
WithoutId(r) ==
    [ f \in (DOMAIN r) \ { "datetimeid" } |-> r[f] ]

\* C10: every row carries its segment's confidence and offsets, its shot's
\* entity, and the run's title and storage path unchanged; apart from the
\* record id a row is a function of the input alone, whatever the clock read
\* (so two flattenings of one input agree on every field but the record id).
C10_FieldsPassThrough ==
    \A p \in Pairs :
      LET row == shot_records[Rank(p)]
          seg == SegmentOf(p)
      IN  /\ row.confidence = seg.confidence
          /\ row.start_time_offset = seg.start
          /\ row.end_time_offset = seg.end
          /\ row.entity = shots[p[1]].entity
          /\ row.title = title
          /\ row.gcs_filepath = gcs_filepath
          /\ WithoutId(row) =
               [ title             |-> title,
                 video_url_at_time |-> VideoUrlAtTime(args.youtube_url, seg.start),
                 gcs_filepath      |-> gcs_filepath,
                 entity            |-> shots[p[1]].entity,
                 category          |-> Category(shots[p[1]]),
                 start_time_offset |-> seg.start,
                 end_time_offset   |-> seg.end,
                 confidence        |-> seg.confidence ]

C10_Witness ==
    /\ FlattenReturned
    /\ \E k \in 1..Len(shot_records) :
         /\ shot_records[k].confidence = 75
         /\ shot_records[k].start_time_offset = 125
         /\ shot_records[k].end_time_offset = 130
         /\ shot_records[k].entity = "dog"
         /\ shot_records[k].title = "Dogs - YouTube"

=============================================================================
